---- MODULE Spec2Model ----
(***************************************************************************)
(* The train / evaluate / register pipeline of data-science/src.           *)
(*                                                                         *)
(* Spec       : two pipeline runs, each running evaluate.py and then       *)
(*              register.py, interleaved over one model registry and over  *)
(*              evaluation_output directories they may share.              *)
(* SpecTrain  : one run of train.py, from its command line to the saved    *)
(*              model.                                                     *)
(*                                                                         *)
(* A model is what it predicts on the test rows; an accuracy is kept as    *)
(* the number of rows predicted right (accuracy_score is that number over  *)
(* the number of rows, which is the same for every model scored on the     *)
(* same test set, so the order of accuracies is the order of the counts).  *)
(* Text read or written by the scripts is a sequence of characters.        *)
(***************************************************************************)
EXTENDS Integers, Sequences, FiniteSets, TLC

\* ------------------------------------------------------------------ bounds
TestSize == 2
MaxInitVersions == 1
TrainRows == 2

\* The pipeline runs under way at once.
Runs == {1, 2}
ModelNames == {"loan", "other"}
Dirs == {"out1", "out2"}
Labels == {0, 1}

\* The test set's labels (test_data[TARGET_COL]); every row is labelled 1.
y_test == [i \in 1..TestSize |-> 1]
\* The models the runs and the registry draw from: model k predicts the first
\* k test rows right and the others wrong.
Models == {[i \in 1..TestSize |-> IF i <= k THEN 1 ELSE 0] : k \in 0..TestSize}

NoFlag == -1
NoVersion == 0
NoRun == 0
NoText == <<>>

VARIABLES
    \* the pipeline (evaluate.py, register.py)
    registry,           \* the registry: a sequence of registered versions
    files,              \* files[d][name]: the file's text and its writer
    pc,                 \* each run's position
    model,              \* the trained model of the run (model_input / model_path)
    model_name,         \* --model_name
    evaluation_output,  \* --evaluation_output
    score,              \* evaluate: the new model's accuracy
    snapshot,           \* evaluate: what search_model_versions returned
    todo,               \* evaluate: the versions the loop has yet to score
    scores,             \* evaluate: the scores dict, version -> accuracy
    deploy_flag,        \* evaluate: the flag model_promotion computed
    flag_read,          \* register: the integer parsed from the file
    read_from,          \* register: the run whose evaluate wrote the file read
    reg_flag,           \* register: the local deploy_flag the branch tests
    model_version,      \* register: mlflow_model.version
    model_info,         \* register: model_info.json's "id"
    metrics,            \* the metrics the run logged
    trace,              \* the run's calls with an effect outside it, in order
    \* train.py
    t_pc, argv, args, clf, params, t_metrics, model_output, saves, t_trace

pvars == <<registry, files, pc, model, model_name, evaluation_output, score,
           snapshot, todo, scores, deploy_flag, flag_read, read_from, reg_flag,
           model_version, model_info, metrics, trace>>
tvars == <<t_pc, argv, args, clf, params, t_metrics, model_output, saves, t_trace>>
vars == <<pvars, tvars>>

\* ------------------------------------------------------------------- text
Digits == <<"0", "1", "2", "3", "4", "5", "6", "7", "8", "9">>

DigitVal(c) == (CHOOSE d \in 1..Len(Digits) : Digits[d] = c) - 1

RECURSIVE IntToText(_)
\* f"{int(n)}" and "{}".format(n) of a natural number: its decimal digits.
IntToText(n) ==
    IF n < Len(Digits) THEN <<Digits[n + 1]>>
    ELSE IntToText(n \div Len(Digits)) \o <<Digits[(n % Len(Digits)) + 1]>>

RECURSIVE ParseIntDigits(_)
ParseIntDigits(t) ==
    IF Len(t) = 1 THEN DigitVal(t[1])
    ELSE ParseIntDigits(SubSeq(t, 1, Len(t) - 1)) * Len(Digits) + DigitVal(t[Len(t)])

\* A reader that takes any non-empty text for 1 (bool of the text).
ParseIntTruthy(t) == IF Len(t) > 0 THEN 1 ELSE 0

\* int(text) of a text of decimal digits.
ParseInt(t) == ParseIntDigits(t)

\* ------------------------------------------------------------- evaluate.py
\* accuracy_score(y, yhat), times the number of rows.
AccuracyScore(y, yhat) == Cardinality({i \in DOMAIN y : y[i] = yhat[i]})

\* model.predict(X_test)
Predict(m) == m

MaxOf(S) == CHOOSE x \in S : \A z \in S : z <= x

\* The values of the scores dict.
ScoreValues(sc) == {sc[v] : v \in DOMAIN sc}

\* The decision with a strict comparison: a tie does not deploy.
DeployFlagStrict(s, sc) ==
    IF DOMAIN sc # {}
    THEN IF s > MaxOf(ScoreValues(sc)) THEN 1 ELSE 0
    ELSE 1

\* The decision with an empty registry taken for "do not deploy".
DeployFlagEmptyZero(s, sc) ==
    IF DOMAIN sc # {}
    THEN IF s >= MaxOf(ScoreValues(sc)) THEN 1 ELSE 0
    ELSE 0

\* model_promotion's decision from the new score and the scores dict.
DeployFlag(s, sc) ==
    IF DOMAIN sc # {}
    THEN IF s >= MaxOf(ScoreValues(sc)) THEN 1 ELSE 0
    ELSE 1

\* client.search_model_versions(f"name='{model_name}'"): the registry's
\* entries of that name, as they are when it is called.
SearchModelVersions(reg, name) ==
    LET F[i \in 0..Len(reg)] ==
            IF i = 0 THEN <<>>
            ELSE IF reg[i].name = name THEN Append(F[i - 1], reg[i]) ELSE F[i - 1]
    IN F[Len(reg)]

WriteFile(fs, d, name, text, r) ==
    [fs EXCEPT ![d] = [n \in DOMAIN fs[d] \cup {name} |->
                          IF n = name THEN [text |-> text, writer |-> r]
                          ELSE fs[d][n]]]

HasFile(fs, d, name) == name \in DOMAIN fs[d]

Log(r, ev) == trace' = [trace EXCEPT ![r] = trace[r] \o ev]

LogMetric(r, key, val) ==
    metrics' = [metrics EXCEPT ![r] =
                   [k \in DOMAIN metrics[r] \cup {key} |->
                       IF k = key THEN val ELSE metrics[r][k]]]

\* main's loads and model_evaluation: predictions.csv and score.txt are
\* written and the test accuracy is logged.
ModelEvaluation(r) ==
    /\ pc[r] = "e_evaluation"
    /\ LET yhat == Predict(model[r])
           d == evaluation_output[r]
           f1 == WriteFile(files, d, "predictions.csv", yhat, r)
           f2 == WriteFile(f1, d, "score.txt",
                           <<"Scored with the following model:", model[r],
                             "Accuracy: {accuracy.2f} \n">>, r)
       IN /\ files' = f2
          /\ score' = [score EXCEPT ![r] = AccuracyScore(y_test, yhat)]
          /\ LogMetric(r, "test accuracy score", AccuracyScore(y_test, yhat))
    /\ Log(r, <<"write predictions.csv", "write score.txt">>)
    /\ pc' = [pc EXCEPT ![r] = "e_search"]
    /\ UNCHANGED <<tvars, registry, model, model_name, evaluation_output, snapshot, todo,
                   scores, deploy_flag, flag_read, read_from, reg_flag,
                   model_version, model_info>>

\* model_promotion, to the head of its loop: the registry is queried.
SearchVersions(r) ==
    /\ pc[r] = "e_search"
    /\ snapshot' = [snapshot EXCEPT ![r] = SearchModelVersions(registry, model_name[r])]
    /\ todo' = [todo EXCEPT ![r] = SearchModelVersions(registry, model_name[r])]
    /\ Log(r, <<"search_model_versions">>)
    /\ pc' = [pc EXCEPT ![r] = "e_loop"]
    /\ UNCHANGED <<tvars, registry, files, model, model_name, evaluation_output, score,
                   scores, deploy_flag, flag_read, read_from, reg_flag,
                   model_version, model_info, metrics>>

\* One turn of the loop: the version is loaded from the registry and scored
\* on the test data.
ScoreVersion(r) ==
    /\ pc[r] = "e_loop"
    /\ todo[r] # <<>>
    /\ LET v == Head(todo[r])
       IN scores' = [scores EXCEPT ![r] =
                        [k \in DOMAIN scores[r] \cup {v.version} |->
                            IF k = v.version
                            THEN AccuracyScore(y_test, Predict(v.model))
                            ELSE scores[r][k]]]
    /\ todo' = [todo EXCEPT ![r] = Tail(todo[r])]
    /\ Log(r, <<"score version">>)
    /\ UNCHANGED <<tvars, registry, files, pc, model, model_name, evaluation_output, score,
                   snapshot, deploy_flag, flag_read, read_from, reg_flag,
                   model_version, model_info, metrics>>

\* One turn of the loop in which load_model or predict raises: the script
\* ends there.
ScoreVersionFails(r) ==
    /\ pc[r] = "e_loop"
    /\ todo[r] # <<>>
    /\ Log(r, <<"load_model raised">>)
    /\ pc' = [pc EXCEPT ![r] = "e_failed"]
    /\ UNCHANGED <<tvars, registry, files, model, model_name, evaluation_output, score,
                   snapshot, todo, scores, deploy_flag, flag_read, read_from,
                   reg_flag, model_version, model_info, metrics>>

\* The flag written without waiting for the loop to end.
LoopDoneEarly(r) == TRUE

\* The for loop has gone through every version the query returned.
LoopDone(r) == todo[r] = <<>>

\* model_promotion after its loop: the flag is decided, written and logged.
Promote(r) ==
    /\ pc[r] = "e_loop"
    /\ LoopDone(r)
    /\ LET flag == DeployFlag(score[r], scores[r])
       IN /\ deploy_flag' = [deploy_flag EXCEPT ![r] = flag]
          /\ files' = WriteFile(files, evaluation_output[r], "deploy_flag",
                                IntToText(flag), r)
          /\ LogMetric(r, "deploy flag", flag = 1)
    /\ Log(r, <<"write deploy_flag">>)
    /\ pc' = [pc EXCEPT ![r] = "r_read"]
    /\ UNCHANGED <<tvars, registry, model, model_name, evaluation_output, score, snapshot,
                   todo, scores, flag_read, read_from, reg_flag, model_version,
                   model_info>>

\* ------------------------------------------------------------- register.py
\* The local deploy_flag the branch tests, given the integer parsed from the
\* file: the assignment that follows the read.
RegisterFlag(parsed) == 1

\* The version number the registry gives a new version of `name`.
NextVersion(reg, name) == Len(SearchModelVersions(reg, name)) + 1

\* The id with its two format arguments swapped.
ModelInfoIdSwapped(name, version) == IntToText(version) \o <<":", name>>

\* "{0}:{1}".format(model_name, model_version)
ModelInfoId(name, version) == <<name, ":">> \o IntToText(version)

\* main, to its branch: the flag file is read and parsed, the flag is logged,
\* the local flag is set and tested.
ReadDeployFlag(r) ==
    /\ pc[r] = "r_read"
    /\ HasFile(files, evaluation_output[r], "deploy_flag")
    /\ LET f == files[evaluation_output[r]]["deploy_flag"]
           parsed == ParseInt(f.text)
       IN /\ flag_read' = [flag_read EXCEPT ![r] = parsed]
          /\ read_from' = [read_from EXCEPT ![r] = f.writer]
          /\ LogMetric(r, "register deploy flag", parsed)
          /\ reg_flag' = [reg_flag EXCEPT ![r] = RegisterFlag(parsed)]
          /\ pc' = [pc EXCEPT ![r] = IF RegisterFlag(parsed) = 1
                                     THEN "r_register" ELSE "r_skipped"]
    /\ Log(r, <<"read deploy_flag">>)
    /\ UNCHANGED <<tvars, registry, files, model, model_name, evaluation_output, score,
                   snapshot, todo, scores, deploy_flag, model_version, model_info>>

\* A registration that first checks the model against the registry as it is
\* now, and goes on only if no version of the name scores higher.
RegisterModelRechecked(r) ==
    /\ pc[r] = "r_register"
    /\ \A i \in 1..Len(registry) :
          registry[i].name = model_name[r]
              => AccuracyScore(y_test, Predict(model[r]))
                     >= AccuracyScore(y_test, Predict(registry[i].model))
    /\ registry' = Append(registry,
                          [name |-> model_name[r],
                           version |-> NextVersion(registry, model_name[r]),
                           model |-> model[r], run |-> r])
    /\ model_version' = [model_version EXCEPT ![r] =
                            NextVersion(registry, model_name[r])]
    /\ Log(r, <<"log_model", "register_model">>)
    /\ pc' = [pc EXCEPT ![r] = "r_info"]
    /\ UNCHANGED <<tvars, files, model, model_name, evaluation_output, score, snapshot,
                   todo, scores, deploy_flag, flag_read, read_from, reg_flag,
                   model_info, metrics>>

\* The taken branch, to the registration: the model is loaded, logged and
\* registered as a new version of model_name.
RegisterModel(r) ==
    /\ pc[r] = "r_register"
    /\ registry' = Append(registry,
                          [name |-> model_name[r],
                           version |-> NextVersion(registry, model_name[r]),
                           model |-> model[r], run |-> r])
    /\ model_version' = [model_version EXCEPT ![r] =
                            NextVersion(registry, model_name[r])]
    /\ Log(r, <<"log_model", "register_model">>)
    /\ pc' = [pc EXCEPT ![r] = "r_info"]
    /\ UNCHANGED <<tvars, files, model, model_name, evaluation_output, score, snapshot,
                   todo, scores, deploy_flag, flag_read, read_from, reg_flag,
                   model_info, metrics>>

\* The taken branch, after the registration: model_info.json is written.
WriteModelInfo(r) ==
    /\ pc[r] = "r_info"
    /\ model_info' = [model_info EXCEPT ![r] =
                         ModelInfoId(model_name[r], model_version[r])]
    /\ Log(r, <<"write model_info.json">>)
    /\ pc' = [pc EXCEPT ![r] = "done"]
    /\ UNCHANGED <<tvars, registry, files, model, model_name, evaluation_output, score,
                   snapshot, todo, scores, deploy_flag, flag_read, read_from,
                   reg_flag, model_version, metrics>>

\* ---------------------------------------------------------------- train.py
NoValue == <<>>
ArgNames == {"n_estimators", "bootstrap", "max_depth", "max_features",
             "min_samples_leaf", "min_samples_split"}

\* What the command line may give each argument: nothing, or one text.
ArgTexts ==
    [n_estimators |-> {NoText, <<"1", "0">>},
     bootstrap |-> {NoText, <<"0">>},
     max_depth |-> {NoText, <<"3">>},
     max_features |-> {NoText, <<"l", "o", "g", "2">>},
     min_samples_leaf |-> {NoText, <<"2">>},
     min_samples_split |-> {NoText, <<"4">>}]

\* parse_args: an argument given is converted by its type, one not given
\* takes its default as it stands.
ParseArgs(av) ==
    [n_estimators |-> IF av.n_estimators = NoText THEN 100
                      ELSE ParseInt(av.n_estimators),
     bootstrap |-> IF av.bootstrap = NoText THEN TRUE ELSE ParseInt(av.bootstrap),
     max_depth |-> IF av.max_depth = NoText THEN "None" ELSE ParseInt(av.max_depth),
     max_features |-> IF av.max_features = NoText THEN <<"s", "q", "r", "t">>
                      ELSE av.max_features,
     min_samples_leaf |-> IF av.min_samples_leaf = NoText THEN 1
                          ELSE ParseInt(av.min_samples_leaf),
     min_samples_split |-> IF av.min_samples_split = NoText THEN 2
                           ELSE ParseInt(av.min_samples_split)]

\* The keyword arguments RandomForestClassifier is constructed with.
ClassifierParams(a) ==
    [n_estimators |-> a.n_estimators,
     bootstrap |-> a.bootstrap,
     max_depth |-> a.max_depth,
     max_features |-> a.max_features,
     min_samples_leaf |-> a.min_samples_leaf,
     min_samples_split |-> a.min_samples_split]

\* The log_param calls with min_samples_leaf and min_samples_split swapped.
LoggedParamsSwapped(a) ==
    [model |-> "RandomForestClassifier",
     n_estimators |-> a.n_estimators,
     bootstrap |-> a.bootstrap,
     max_depth |-> a.max_depth,
     max_features |-> a.max_features,
     min_samples_leaf |-> a.min_samples_split,
     min_samples_split |-> a.min_samples_leaf]

\* The seven log_param calls: key -> the value handed to log_param.
LoggedParams(a) ==
    [model |-> "RandomForestClassifier",
     n_estimators |-> a.n_estimators,
     bootstrap |-> a.bootstrap,
     max_depth |-> a.max_depth,
     max_features |-> a.max_features,
     min_samples_leaf |-> a.min_samples_leaf,
     min_samples_split |-> a.min_samples_split]

TLog(ev) == t_trace' = t_trace \o ev

\* __main__: parse_args.
TrainParseArgs ==
    /\ t_pc = "t_parse"
    /\ args' = ParseArgs(argv)
    /\ t_pc' = "t_construct"
    /\ UNCHANGED <<pvars, argv, clf, params, t_metrics, model_output, saves, t_trace>>

\* main: the train data is read and the classifier constructed.
TrainConstruct ==
    /\ t_pc = "t_construct"
    /\ clf' = [params |-> ClassifierParams(args), fitted |-> FALSE,
               yhat_train |-> NoValue]
    /\ TLog(<<"construct">>)
    /\ t_pc' = "t_log_params"
    /\ UNCHANGED <<pvars, argv, args, params, t_metrics, model_output, saves>>

\* main: the hyperparameters are logged.
TrainLogParams ==
    /\ t_pc = "t_log_params"
    /\ params' = LoggedParams(args)
    /\ TLog(<<"log_param">>)
    /\ t_pc' = "t_fit"
    /\ UNCHANGED <<pvars, argv, args, clf, t_metrics, model_output, saves>>

\* main: model.fit. What the fitted forest predicts on the train rows is not
\* determined (random_state=None).
TrainFit ==
    /\ t_pc = "t_fit"
    /\ \E yh \in [1..TrainRows -> Labels] :
          clf' = [clf EXCEPT !.fitted = TRUE, !.yhat_train = yh]
    /\ TLog(<<"fit">>)
    /\ t_pc' = "t_score"
    /\ UNCHANGED <<pvars, argv, args, params, t_metrics, model_output, saves>>

\* main: the train accuracy is computed and logged.
TrainScore ==
    /\ t_pc = "t_score"
    /\ t_metrics' = [k \in {"train accuracy score"} |->
                        AccuracyScore([i \in 1..TrainRows |-> 1], clf.yhat_train)]
    /\ TLog(<<"log_metric train accuracy score">>)
    /\ t_pc' = "t_save"
    /\ UNCHANGED <<pvars, argv, args, clf, params, model_output, saves>>

\* main: the model is saved to model_output.
TrainSave ==
    /\ t_pc = "t_save"
    /\ model_output' = clf
    /\ saves' = saves + 1
    /\ TLog(<<"save_model">>)
    /\ t_pc' = "t_done"
    /\ UNCHANGED <<pvars, argv, args, clf, params, t_metrics>>

\* ------------------------------------------------------------ specifications
EmptyMap == [k \in {} |-> 0]

RECURSIVE SeqsUpTo(_, _)
SeqsUpTo(S, n) ==
    IF n = 0 THEN {<<>>}
    ELSE LET shorter == SeqsUpTo(S, n - 1)
         IN shorter \cup {Append(q, x) : q \in shorter, x \in S}

\* A registry holding the given (name, model) registrations, in order.
RECURSIVE RegistryOf(_)
RegistryOf(q) ==
    IF q = <<>> THEN <<>>
    ELSE LET before == RegistryOf(SubSeq(q, 1, Len(q) - 1))
             last == q[Len(q)]
         IN Append(before, [name |-> last[1],
                            version |-> NextVersion(before, last[1]),
                            model |-> last[2], run |-> NoRun])

InitRegistries == {RegistryOf(q) : q \in SeqsUpTo(ModelNames \X Models, MaxInitVersions)}

PipelineIdle ==
    /\ registry = <<>>
    /\ files = [d \in Dirs |-> EmptyMap]
    /\ pc = [r \in Runs |-> "idle"]
    /\ model = [r \in Runs |-> y_test]
    /\ model_name = [r \in Runs |-> "loan"]
    /\ evaluation_output = [r \in Runs |-> "out1"]
    /\ score = [r \in Runs |-> 0]
    /\ snapshot = [r \in Runs |-> <<>>]
    /\ todo = [r \in Runs |-> <<>>]
    /\ scores = [r \in Runs |-> EmptyMap]
    /\ deploy_flag = [r \in Runs |-> NoFlag]
    /\ flag_read = [r \in Runs |-> NoFlag]
    /\ read_from = [r \in Runs |-> NoRun]
    /\ reg_flag = [r \in Runs |-> NoFlag]
    /\ model_version = [r \in Runs |-> NoVersion]
    /\ model_info = [r \in Runs |-> NoText]
    /\ metrics = [r \in Runs |-> EmptyMap]
    /\ trace = [r \in Runs |-> <<>>]

TrainIdle ==
    /\ t_pc = "idle"
    /\ argv = [a \in ArgNames |-> NoText]
    /\ args = NoValue
    /\ clf = NoValue
    /\ params = EmptyMap
    /\ t_metrics = EmptyMap
    /\ model_output = NoValue
    /\ saves = 0
    /\ t_trace = <<>>

\* The runs are about to start evaluate.py, each with a trained model, a model
\* name and an output directory; the registry holds earlier versions. The
\* directories are interchangeable, so run 1's is taken to be "out1" and run 2
\* either shares it or has the other.
PipelineInit ==
    /\ registry \in InitRegistries
    /\ files = [d \in Dirs |-> EmptyMap]
    /\ pc = [r \in Runs |-> "e_evaluation"]
    /\ model \in [Runs -> Models]
    /\ model_name \in [Runs -> ModelNames]
    /\ evaluation_output \in {f \in [Runs -> Dirs] : f[1] = "out1"}
    /\ score = [r \in Runs |-> 0]
    /\ snapshot = [r \in Runs |-> <<>>]
    /\ todo = [r \in Runs |-> <<>>]
    /\ scores = [r \in Runs |-> EmptyMap]
    /\ deploy_flag = [r \in Runs |-> NoFlag]
    /\ flag_read = [r \in Runs |-> NoFlag]
    /\ read_from = [r \in Runs |-> NoRun]
    /\ reg_flag = [r \in Runs |-> NoFlag]
    /\ model_version = [r \in Runs |-> NoVersion]
    /\ model_info = [r \in Runs |-> NoText]
    /\ metrics = [r \in Runs |-> EmptyMap]
    /\ trace = [r \in Runs |-> <<>>]

\* train.py is about to parse its command line.
TrainInit ==
    /\ t_pc = "t_parse"
    /\ argv \in [n_estimators : ArgTexts.n_estimators,
                 bootstrap : ArgTexts.bootstrap,
                 max_depth : ArgTexts.max_depth,
                 max_features : ArgTexts.max_features,
                 min_samples_leaf : ArgTexts.min_samples_leaf,
                 min_samples_split : ArgTexts.min_samples_split]
    /\ args = NoValue
    /\ clf = NoValue
    /\ params = EmptyMap
    /\ t_metrics = EmptyMap
    /\ model_output = NoValue
    /\ saves = 0
    /\ t_trace = <<>>

Init == PipelineInit /\ TrainIdle

Next ==
    \E r \in Runs :
        \/ ModelEvaluation(r)
        \/ SearchVersions(r)
        \/ ScoreVersion(r)
        \/ ScoreVersionFails(r)
        \/ Promote(r)
        \/ ReadDeployFlag(r)
        \/ RegisterModel(r)
        \/ WriteModelInfo(r)

Spec == Init /\ [][Next]_vars

InitTrain == TrainInit /\ PipelineIdle

NextTrain ==
    \/ TrainParseArgs
    \/ TrainConstruct
    \/ TrainLogParams
    \/ TrainFit
    \/ TrainScore
    \/ TrainSave

SpecTrain == InitTrain /\ [][NextTrain]_vars

\* ------------------------------------------------------------------ claims
Has(q, e) == \E i \in 1..Len(q) : q[i] = e
Pos(q, e) == CHOOSE i \in 1..Len(q) : q[i] = e
Count(q, e) == Cardinality({i \in 1..Len(q) : q[i] = e})
Accuracy(m) == AccuracyScore(y_test, Predict(m))
VersionsOf(r) == {i \in 1..Len(registry) : registry[i].run = r}
RegisterEnded(r) == pc[r] \in {"done", "r_skipped"}
EvaluateOutputs == {"predictions.csv", "score.txt", "deploy_flag"}

\* C1: a run of register.main creates a new model version if and only if the
\* deploy flag it read from <evaluation_output>/deploy_flag is 1: a version
\* when the file holds 1, none when it holds 0.
C1_RegistersIffFlagIsOne ==
    \A r \in Runs :
        RegisterEnded(r) => (VersionsOf(r) # {} <=> flag_read[r] = 1)

\* C2: with at least one version of model_name registered, model_promotion
\* sets deploy_flag to 1 exactly when the new model's test accuracy is at least
\* that of every registered version, re-scored on the same test data, and to 0
\* exactly when some registered version scores strictly higher.
C2_PromotionComparesAll ==
    \A r \in Runs :
        (deploy_flag[r] # NoFlag /\ snapshot[r] # <<>>) =>
            /\ score[r] = Accuracy(model[r])
            /\ deploy_flag[r] \in {0, 1}
            /\ deploy_flag[r] = 1 <=>
                   \A i \in 1..Len(snapshot[r]) :
                       score[r] >= Accuracy(snapshot[r][i].model)
            /\ deploy_flag[r] = 0 <=>
                   \E i \in 1..Len(snapshot[r]) :
                       Accuracy(snapshot[r][i].model) > score[r]

\* A run whose model ties with the best of two registered versions, the best
\* not being the last one, and is given flag 1.
C2_TieWitness ==
    \E r \in Runs :
        /\ deploy_flag[r] = 1
        /\ Len(snapshot[r]) = 2
        /\ Accuracy(snapshot[r][1].model) = score[r]
        /\ Accuracy(snapshot[r][2].model) < score[r]

\* C3: an evaluate run that completes main leaves predictions.csv, score.txt
\* and deploy_flag in evaluation_output; predictions.csv and score.txt are
\* written before the registry is queried; deploy_flag is written only after
\* every registered version was loaded and scored, so a run that fails while
\* scoring a registered version has written no deploy_flag.
C3_EvaluateOutputsInOrder ==
    \A r \in Runs :
        /\ deploy_flag[r] # NoFlag =>
               \A n \in EvaluateOutputs : HasFile(files, evaluation_output[r], n)
        /\ Has(trace[r], "search_model_versions") =>
               /\ HasFile(files, evaluation_output[r], "predictions.csv")
               /\ HasFile(files, evaluation_output[r], "score.txt")
               /\ Pos(trace[r], "write predictions.csv")
                      < Pos(trace[r], "search_model_versions")
               /\ Pos(trace[r], "write score.txt")
                      < Pos(trace[r], "search_model_versions")
        /\ Has(trace[r], "write deploy_flag") =>
               /\ Count(trace[r], "write deploy_flag") = 1
               /\ Count(SubSeq(trace[r], 1, Pos(trace[r], "write deploy_flag")),
                        "score version") = Len(snapshot[r])
               /\ DOMAIN scores[r] = {snapshot[r][i].version : i \in 1..Len(snapshot[r])}
               /\ Pos(trace[r], "search_model_versions")
                      < Pos(trace[r], "write deploy_flag")
        /\ pc[r] = "e_failed" =>
               /\ ~Has(trace[r], "write deploy_flag")
               /\ \A d \in Dirs :
                      HasFile(files, d, "deploy_flag")
                          => files[d]["deploy_flag"].writer # r

\* A run that failed on the second of two registered versions, in a directory
\* where another run's evaluate has left its deploy_flag.
C3_FailedRunWitness ==
    \E r \in Runs :
        /\ pc[r] = "e_failed"
        /\ Len(snapshot[r]) = 2
        /\ Has(trace[r], "score version")
        /\ HasFile(files, evaluation_output[r], "deploy_flag")

\* C4: in a completed run of train.main the seven parameters are logged with
\* the values the classifier was constructed with, the fit comes before the
\* 'train accuracy score' metric is logged, and the model written to
\* model_output is the fitted model, saved after the fit and exactly once.
C4_TrainLogsFitsSaves ==
    /\ t_pc \in {"t_fit", "t_score", "t_save", "t_done"} =>
           /\ DOMAIN params = ArgNames \cup {"model"}
           /\ params["model"] = "RandomForestClassifier"
           /\ \A k \in ArgNames : params[k] = clf.params[k]
           /\ clf.params = ClassifierParams(ParseArgs(argv))
    /\ t_pc \in {"t_save", "t_done"} =>
           /\ DOMAIN t_metrics = {"train accuracy score"}
           /\ clf.fitted
           /\ Pos(t_trace, "fit") < Pos(t_trace, "log_metric train accuracy score")
    /\ t_pc \in {"t_parse", "t_construct", "t_log_params", "t_fit", "t_score"} =>
           DOMAIN t_metrics = {}
    /\ t_pc = "t_done" =>
           /\ model_output = clf
           /\ model_output.fitted
           /\ saves = 1
           /\ Count(t_trace, "save_model") = 1
           /\ Pos(t_trace, "fit") < Pos(t_trace, "save_model")
    /\ t_pc # "t_done" => saves = 0

\* A completed run whose command line gave some arguments and left the others
\* to their defaults.
C4_CompletedRunWitness ==
    /\ t_pc = "t_done"
    /\ argv.max_depth # NoText
    /\ argv.min_samples_leaf # NoText
    /\ argv.n_estimators = NoText
    /\ argv.min_samples_split = NoText

\* C5: when no version of model_name is registered, model_promotion sets
\* deploy_flag to 1 whatever the new model's accuracy, and writes '1' to the
\* deploy_flag file.
C5_NoVersionsDeploys ==
    \A r \in Runs :
        (deploy_flag[r] # NoFlag /\ snapshot[r] = <<>>) =>
            /\ deploy_flag[r] = 1
            /\ HasFile(files, evaluation_output[r], "deploy_flag")
            /\ files[evaluation_output[r]]["deploy_flag"].writer = r
                   => files[evaluation_output[r]]["deploy_flag"].text = <<"1">>

\* A run whose model gets every test row wrong, with nothing registered under
\* its name, and whose own '1' is in the file.
C5_WorstModelWitness ==
    \E r \in Runs :
        /\ deploy_flag[r] = 1
        /\ snapshot[r] = <<>>
        /\ score[r] = 0
        /\ files[evaluation_output[r]]["deploy_flag"].writer = r
        /\ files[evaluation_output[r]]["deploy_flag"].text = <<"1">>

\* C6: a register run that registers creates exactly one new version of
\* model_name, the model_info.json it then writes has id
\* '<model_name>:<version>' with the version number of that new registry entry,
\* and model_info.json is written only after the registration returned.
C6_OneVersionAndItsInfo ==
    /\ \A r \in Runs :
           /\ Cardinality(VersionsOf(r)) <= 1
           /\ pc[r] \in {"r_info", "done"} => Cardinality(VersionsOf(r)) = 1
           /\ \A i \in VersionsOf(r) :
                  /\ registry[i].name = model_name[r]
                  /\ registry[i].model = model[r]
                  /\ registry[i].version = model_version[r]
           /\ model_info[r] # NoText =>
                  /\ \E i \in VersionsOf(r) :
                         model_info[r] = <<model_name[r], ":">>
                                             \o IntToText(registry[i].version)
                  /\ Pos(trace[r], "register_model")
                         < Pos(trace[r], "write model_info.json")
           /\ pc[r] = "done" => model_info[r] # NoText
    /\ \A i, j \in 1..Len(registry) :
           (i # j /\ registry[i].name = registry[j].name)
               => registry[i].version # registry[j].version

\* A run that registered the third version of its model name and wrote its id.
C6_ThirdVersionWitness ==
    \E r \in Runs :
        /\ pc[r] = "done"
        /\ model_version[r] = 3
        /\ model_info[r] = <<model_name[r], ":", "3">>

\* C7: evaluate writes exactly the text '0' or '1' to deploy_flag, and the
\* integer register parses from the file is the deploy_flag value computed by
\* the evaluate that wrote it, for both values.
C7_FlagFileLossless ==
    /\ \A d \in Dirs :
           HasFile(files, d, "deploy_flag") =>
               LET f == files[d]["deploy_flag"]
               IN /\ f.text \in {<<"0">>, <<"1">>}
                  /\ f.text = <<"1">> <=> deploy_flag[f.writer] = 1
                  /\ f.text = <<"0">> <=> deploy_flag[f.writer] = 0
    /\ \A r \in Runs :
           read_from[r] # NoRun =>
               /\ flag_read[r] \in {0, 1}
               /\ flag_read[r] = deploy_flag[read_from[r]]

\* One run has read a 0 and another a 1, each from its own evaluate.
C7_BothValuesWitness ==
    \E r1, r2 \in Runs :
        /\ read_from[r1] = r1 /\ flag_read[r1] = 0 /\ deploy_flag[r1] = 0
        /\ read_from[r2] = r2 /\ flag_read[r2] = 1 /\ deploy_flag[r2] = 1

\* C8: the deploy decision is taken on the registry as evaluate saw it and is
\* not checked again by register: a run's flag is decided by the versions in
\* its snapshot, register parses whatever flag file is in its directory when
\* it reads (its own run's or another's), and a run that has reached the
\* registration registers whatever the registry holds by then.
C8_DecisionNotRechecked ==
    \A r \in Runs :
        /\ deploy_flag[r] # NoFlag =>
               (deploy_flag[r] = 1 <=>
                    \A i \in 1..Len(snapshot[r]) :
                        score[r] >= Accuracy(snapshot[r][i].model))
        /\ read_from[r] # NoRun =>
               /\ evaluation_output[read_from[r]] = evaluation_output[r]
               /\ flag_read[r] = deploy_flag[read_from[r]]
        /\ pc[r] = "r_register" => ENABLED RegisterModel(r)

\* Two runs of one model name and one output directory were both given flag 1
\* against the same snapshot; the one that registered second added a version
\* less accurate than the one the first had just registered, and the first
\* had parsed the flag file written by the second's evaluate.
C8_RaceWitness ==
    \E r1, r2 \in Runs :
        /\ r1 # r2
        /\ model_name[r1] = model_name[r2]
        /\ deploy_flag[r1] = 1 /\ deploy_flag[r2] = 1
        /\ snapshot[r1] = snapshot[r2]
        /\ model_version[r1] # NoVersion
        /\ model_version[r2] = model_version[r1] + 1
        /\ Accuracy(model[r2]) < Accuracy(model[r1])
        /\ read_from[r1] = r2

====
